---- MODULE Spec2Model ----
(***************************************************************************)
(* Model of rl_qoc/rewards/cafe/cafe_reward.py (class CAFEReward).         *)
(*                                                                         *)
(*   SpecReward : get_reward_with_primitive, the reward estimator          *)
(*   SpecData   : __post_init__, set_reward_seed and get_reward_data       *)
(*   SpecRT     : get_real_time_circuit, the real-time program synthesis   *)
(*                                                                         *)
(* Floating-point values are modelled as exact rationals [num, den].       *)
(***************************************************************************)
EXTENDS Integers, Sequences, FiniteSets, TLC

\* ---------------------------------------------------------------- bounds
MaxProbes == 3      \* probes (pubs) in one Reward Data
MaxBatch == 2       \* parameter-batch size of a probe
MaxShots == 2       \* shot count of a probe
MaxBits == 2        \* measured bits of a probe
MaxRawBits == 8     \* raw bits returned by one job (probes x batch x shots x bits)
MaxSamples == 3     \* env_config.sampling_paulis
MaxQubits == 2      \* target.causal_cone_size in get_reward_data
MaxSeed == 1        \* seed argument of set_reward_seed
MaxCalls == 3       \* get_reward_data calls on one CAFEReward object
MaxNReps == 2       \* execution_config.current_n_reps and the values of n_reps
MaxContexts == 2    \* circuit contexts given to get_real_time_circuit
MaxWidth == 2       \* qubits of the circuit contexts

\* ---------------------------------------------------------------- program constants
DefaultSeed == 2000   \* input_states_seed: int = 2000
SeedOffset == 357     \* set_reward_seed: seed + 357

VARIABLES
    pc,                          \* position in the method being run
    pubs,                        \* reward_data.pubs: <<[shots, batch]>>
    meas_bits,                   \* width of the meas register of the probes
    causal_cone_qubits_indices,  \* reward_data.causal_cone_qubits_indices
    pub_results,                 \* job.result(): [probe][batch element] -> shots
    survival_probability,        \* [probe][batch element] -> rational
    reward,                      \* the returned vector of rationals
    input_states_choice,         \* CAFEReward.input_states_choice
    input_states_seed,           \* CAFEReward.input_states_seed
    input_states_rng,            \* CAFEReward.input_states_rng (generator state)
    env_config,                  \* sampling_paulis, current_n_reps, control_flow_enabled
    target,                      \* is_gate, causal_cone_size
    drawn,                       \* result of input_states_rng.choice(...)
    input_states_samples,        \* np.unique(drawn)
    reward_data,                 \* the CAFERewardData built so far
    calls,                       \* history of the sampling calls on this object
    prior,                       \* sampling calls since the generator was seeded
    rt_args,                     \* arguments and configuration of get_real_time_circuit
    qc,                          \* the real-time program built so far
    cycle_circuit_inverses,      \* [context] -> inverses computed, in all_n_reps order
    computed,                    \* the (context, n) inverse computations done, in order
    loop_i,                      \* index of the outer loop over ref_circuits
    loop_q                       \* index of the loop over qubits

rewardVars == <<pubs, meas_bits, causal_cone_qubits_indices, pub_results,
                survival_probability, reward>>
dataVars == <<input_states_choice, input_states_seed, input_states_rng, env_config,
              target, drawn, input_states_samples, reward_data, calls, prior>>
rtVars == <<rt_args, qc, cycle_circuit_inverses, computed, loop_i, loop_q>>
vars == <<pc, rewardVars, dataVars, rtVars>>

\* ---------------------------------------------------------------- helpers
RECURSIVE Pow(_, _)
Pow(b, e) == IF e = 0 THEN 1 ELSE b * Pow(b, e - 1)

RECURSIVE SumSeq(_)
SumSeq(s) == IF s = <<>> THEN 0 ELSE Head(s) + SumSeq(Tail(s))

RECURSIVE SortedSeq(_)
SortedSeq(S) ==
    IF S = {} THEN <<>>
    ELSE LET m == CHOOSE x \in S : \A y \in S : x <= y
         IN  <<m>> \o SortedSeq(S \ {m})

Range(s) == {s[i] : i \in DOMAIN s}

Rat(n, d) == [num |-> n, den |-> d]
RatEq(a, b) == a.num * b.den = b.num * a.den
RatAdd(a, b) == Rat(a.num * b.den + b.num * a.den, a.den * b.den)

\* ------------------------------------------------- BitArray (qiskit primitives)
\* A shot is the integer value of the measured bitstring; bit 0 is the least
\* significant bit.
Bit(outcome, idx) == (outcome \div Pow(2, idx)) % 2

\* BitArray.get_int_counts().get(0, 0)
GetIntCountsZero(bit_array) ==
    Cardinality({k \in DOMAIN bit_array : bit_array[k] = 0})

\* BitArray.postselect(indices, selection): the shots whose bit indices[k]
\* reads selection[k] for every k
PostselectMut(bit_array, indices, selection) ==
    SelectSeq(bit_array,
              LAMBDA o : \A k \in 1..(Len(indices) - 1) :
                             Bit(o, indices[k]) = selection[k])
Postselect(bit_array, indices, selection) ==
    SelectSeq(bit_array,
              LAMBDA o : \A k \in DOMAIN indices :
                             Bit(o, indices[k]) = selection[k])

\* BitArray.num_shots
NumShots(bit_array) == Len(bit_array)

\* ------------------------------------------------- get_reward_with_primitive
\* reward_data.causal_cone_size
causal_cone_size == Len(causal_cone_qubits_indices)

batch_size == pubs[1].batch
n_shots == pubs[1].shots
num_bits == meas_bits

\* shots returned for the probes before probe p
Offset(p) == SumSeq([q \in 1..(p - 1) |-> pubs[q].batch * pubs[q].shots])
TotalShots == Offset(Len(pubs) + 1)

\* primitive.run(reward_data.pubs).result(): one bit array of pub.shots shots
\* per probe and batch element, cut out of the flat list of returned shots
Shape(flat) ==
    [p \in 1..Len(pubs) |->
        [b \in 1..pubs[p].batch |->
            [k \in 1..pubs[p].shots |->
                flat[Offset(p) + (b - 1) * pubs[p].shots + k]]]]

\* no post-selection: count of the all-zero outcome over the shot count
DirectSurvival(bit_array, shots) == Rat(GetIntCountsZero(bit_array), shots)

\* post-selection on the causal cone indices reading all zero
PostselectSurvivalMut(bit_array, indices, size, shots) ==
    LET kept == Postselect(bit_array, indices, [k \in 1..size |-> 0])
    IN  Rat(NumShots(kept), IF NumShots(kept) = 0 THEN 1 ELSE NumShots(kept))
PostselectSurvival(bit_array, indices, size, shots) ==
    Rat(NumShots(Postselect(bit_array, indices, [k \in 1..size |-> 0])), shots)

SurvivalProbability ==
    IF num_bits = causal_cone_size
    THEN [p \in 1..Len(pub_results) |->
            [b \in 1..batch_size |-> DirectSurvival(pub_results[p][b], n_shots)]]
    ELSE [p \in 1..Len(pub_results) |->
            [b \in 1..batch_size |->
                PostselectSurvival(pub_results[p][b], causal_cone_qubits_indices,
                                   causal_cone_size, n_shots)]]

\* np.mean(a, axis=0) of a list of equally long rows
RECURSIVE RatSum(_)
RatSum(s) == IF s = <<>> THEN Rat(0, 1) ELSE RatAdd(Head(s), RatSum(Tail(s)))

MeanAxis0Mut(a) ==
    [b \in 1..Len(a[1]) |-> RatSum([p \in 1..Len(a) |-> a[p][b]])]
MeanAxis0(a) ==
    [b \in 1..Len(a[1]) |->
        LET s == RatSum([p \in 1..Len(a) |-> a[p][b]])
        IN  Rat(s.num, s.den * Len(a))]

ShotsAgreeMut == TRUE
ShotsAgree == \A p \in DOMAIN pubs : pubs[p].shots = n_shots
BatchAgree == \A p \in DOMAIN pubs : pubs[p].batch = batch_size

PubSeqs ==
    UNION {[1..n -> [shots : 1..MaxShots, batch : 1..MaxBatch]] : n \in 1..MaxProbes}

\* the part of the state a run of get_reward_with_primitive does not touch
RTUnused ==
    /\ rt_args = <<>>
    /\ qc = <<>>
    /\ cycle_circuit_inverses = <<>>
    /\ computed = <<>>
    /\ loop_i = 0
    /\ loop_q = 0

DataUnused ==
    /\ input_states_choice = "pauli4"
    /\ input_states_seed = DefaultSeed
    /\ input_states_rng = 0
    /\ env_config = <<>>
    /\ target = <<>>
    /\ drawn = <<>>
    /\ input_states_samples = <<>>
    /\ reward_data = <<>>
    /\ calls = <<>>
    /\ prior = <<>>

InitReward ==
    /\ pc = "rw_start"
    /\ DataUnused
    /\ RTUnused
    /\ pubs \in PubSeqs
    /\ meas_bits \in 1..MaxBits
    /\ TotalShots * meas_bits <= MaxRawBits
    /\ causal_cone_qubits_indices \in
           {SortedSeq(S) : S \in (SUBSET (0..(meas_bits - 1))) \ {{}}}
    /\ pub_results = <<>>
    /\ survival_probability = <<>>
    /\ reward = <<>>

\* lines 194-197: the job is submitted and its result read
RunPrimitive ==
    /\ pc = "rw_start"
    /\ \E flat \in [1..TotalShots -> 0..(Pow(2, meas_bits) - 1)] :
           pub_results' = Shape(flat)
    /\ pc' = "rw_ran"
    /\ UNCHANGED <<pubs, meas_bits, causal_cone_qubits_indices,
                   survival_probability, reward, dataVars, rtVars>>

\* lines 198-202
AssertShots ==
    /\ pc = "rw_ran"
    /\ pc' = IF ShotsAgree THEN "rw_shots_ok" ELSE "rw_AssertionError"
    /\ UNCHANGED <<pubs, meas_bits, causal_cone_qubits_indices, pub_results,
                   survival_probability, reward, dataVars, rtVars>>

\* lines 203-205
AssertBatch ==
    /\ pc = "rw_shots_ok"
    /\ pc' = IF BatchAgree THEN "rw_batch_ok" ELSE "rw_AssertionError"
    /\ UNCHANGED <<pubs, meas_bits, causal_cone_qubits_indices, pub_results,
                   survival_probability, reward, dataVars, rtVars>>

\* lines 206-231
ComputeSurvival ==
    /\ pc = "rw_batch_ok"
    /\ survival_probability' = SurvivalProbability
    /\ pc' = "rw_survival"
    /\ UNCHANGED <<pubs, meas_bits, causal_cone_qubits_indices, pub_results, reward,
                   dataVars, rtVars>>

\* lines 232-233
ReturnReward ==
    /\ pc = "rw_survival"
    /\ reward' = MeanAxis0(survival_probability)
    /\ pc' = "rw_done"
    /\ UNCHANGED <<pubs, meas_bits, causal_cone_qubits_indices, pub_results,
                   survival_probability, dataVars, rtVars>>

NextReward ==
    \/ RunPrimitive
    \/ AssertShots
    \/ AssertBatch
    \/ ComputeSurvival
    \/ ReturnReward

SpecReward == InitReward /\ [][NextReward]_vars
\* ------------------------------------------------- input-state sampling
\* get_input_states_cardinality_per_qubit(input_states_choice)
Cardinality_per_qubit(choice) == IF choice = "pauli4" THEN 4 ELSE 6

\* len(target.input_states(input_states_choice)): the tensor-product library
InputStatesLen(choice, cone_size) == Pow(Cardinality_per_qubit(choice), cone_size)

\* np.random.default_rng(seed): the generator state is a function of the seed.
\* The generator is a stand-in linear congruential generator.
DefaultRng(seed) == (seed * 75 + 74) % 65537
RngNext(state) == (state * 75 + 74) % 65537

\* Generator.choice(n, size, replace=True): size values below n, each from the
\* next generator state; returns the values and the state left behind
RECURSIVE RngChoice(_, _, _)
RngChoice(state, n, size) ==
    IF size = 0 THEN [values |-> <<>>, state |-> state]
    ELSE LET nxt == RngNext(state)
             rest == RngChoice(nxt, n, size - 1)
         IN  [values |-> <<nxt % n>> \o rest.values, state |-> rest.state]

\* np.unique: the sorted distinct values
NpUniqueMut(values) == values
NpUnique(values) == SortedSeq(Range(values))

\* np.unravel_index(sample, (card,) * n): the digits of sample in base card,
\* most significant first
Unravel(sample, card, n) ==
    [k \in 1..n |-> (sample \div Pow(card, n - k)) % card]

\* line 52: the generator set_reward_seed leaves behind
ReseededRngMut(seed) == input_states_rng
ReseededRng(seed) == DefaultRng(seed)

\* lines 104-108: the (context, control_flow) pairs handle_n_reps is called on,
\* each with execution_config.current_n_reps
CycleRequestsMut ==
    <<[context |-> "qc", n_reps |-> env_config.current_n_reps,
       control_flow |-> FALSE],
      [context |-> "circuit_ref", n_reps |-> env_config.current_n_reps,
       control_flow |-> env_config.control_flow_enabled]>>
CycleRequests ==
    <<[context |-> "qc", n_reps |-> env_config.current_n_reps,
       control_flow |-> env_config.control_flow_enabled],
      [context |-> "circuit_ref", n_reps |-> env_config.current_n_reps,
       control_flow |-> FALSE]>>

\* lines 92-173: the CAFERewardData of one sample
RewardDataOf(sample) ==
    [sample |-> sample,
     input_indices |-> Unravel(sample, Cardinality_per_qubit(input_states_choice),
                               target.causal_cone_size),
     run_qc |-> CycleRequests[1],
     ref_qc |-> CycleRequests[2],
     n_reps |-> env_config.current_n_reps,
     shots |-> env_config.n_shots]

RewardUnused ==
    /\ pubs = <<>>
    /\ meas_bits = 0
    /\ causal_cone_qubits_indices = <<>>
    /\ pub_results = <<>>
    /\ survival_probability = <<>>
    /\ reward = <<>>

\* __post_init__ (lines 36-37) on a CAFEReward built with the default seed
InitData ==
    /\ pc = "idle"
    /\ RewardUnused
    /\ RTUnused
    /\ input_states_choice \in {"pauli4", "pauli6"}
    /\ input_states_seed = DefaultSeed
    /\ input_states_rng = DefaultRng(input_states_seed)
    /\ env_config \in [sampling_paulis : 1..MaxSamples,
                       current_n_reps : 1..MaxNReps,
                       control_flow_enabled : BOOLEAN,
                       n_shots : {MaxShots}]
    /\ target \in [is_gate : BOOLEAN, causal_cone_size : 1..MaxQubits]
    /\ drawn = <<>>
    /\ input_states_samples = <<>>
    /\ reward_data = <<>>
    /\ calls = <<>>
    /\ prior = <<>>

\* lines 47-52
SetRewardSeed ==
    /\ pc = "idle"
    /\ \E seed \in 0..MaxSeed :
          /\ input_states_seed' = seed + SeedOffset
          /\ input_states_rng' = ReseededRng(seed + SeedOffset)
    /\ prior' = <<>>
    /\ UNCHANGED <<pc, rewardVars, rtVars, input_states_choice, env_config, target, drawn,
                   input_states_samples, reward_data, calls>>

\* lines 72-73
RejectTarget ==
    /\ pc = "idle"
    /\ ~target.is_gate
    /\ pc' = "rd_ValueError"
    /\ UNCHANGED <<rewardVars, dataVars, rtVars>>

\* lines 84-91
SampleInputStates ==
    /\ pc = "idle"
    /\ target.is_gate
    /\ Len(calls) < MaxCalls
    /\ LET n == InputStatesLen(input_states_choice, target.causal_cone_size)
           c == RngChoice(input_states_rng, n, env_config.sampling_paulis)
       IN  /\ drawn' = c.values
           /\ input_states_rng' = c.state
           /\ input_states_samples' = NpUnique(c.values)
           /\ calls' = Append(calls, [seed |-> input_states_seed,
                                      prior |-> prior,
                                      size |-> env_config.sampling_paulis,
                                      samples |-> Range(NpUnique(c.values))])
           /\ prior' = Append(prior, env_config.sampling_paulis)
    /\ reward_data' = <<>>
    /\ pc' = "rd_loop"
    /\ UNCHANGED <<rewardVars, rtVars, input_states_choice, input_states_seed, env_config,
                   target>>

\* lines 92-173: one iteration of the loop over the samples
BuildProbe ==
    /\ pc = "rd_loop"
    /\ Len(reward_data) < Len(input_states_samples)
    /\ reward_data' =
           Append(reward_data, RewardDataOf(input_states_samples[Len(reward_data) + 1]))
    /\ UNCHANGED <<pc, rewardVars, rtVars, input_states_choice, input_states_seed,
                   input_states_rng, env_config, target, drawn, input_states_samples,
                   calls, prior>>

\* line 184
ReturnRewardData ==
    /\ pc = "rd_loop"
    /\ Len(reward_data) = Len(input_states_samples)
    /\ pc' = "idle"
    /\ UNCHANGED <<rewardVars, dataVars, rtVars>>

NextData ==
    \/ SetRewardSeed
    \/ RejectTarget
    \/ SampleInputStates
    \/ BuildProbe
    \/ ReturnRewardData

SpecData == InitData /\ [][NextData]_vars

\* ------------------------------------------------- get_real_time_circuit
\* Contexts, qubits, input states and branch positions are numbered from 0, as
\* in the code. An instruction of the program is a record
\*   [stage, var, qubits, states, bodies, contexts, reps]
\* where var is the runtime input a switch reads (<<"none", 0>> when the
\* instruction is no switch), states the input-state cases of a switch and
\* bodies the (context, n_reps) circuits it holds; contexts and reps are the
\* case labels of its switch over circuit_choice and of its switch over
\* n_reps_var, empty when it has no such switch.
Instr(stage, var, qubits, states, bodies) ==
    [stage |-> stage, var |-> var, qubits |-> qubits, states |-> states,
     bodies |-> bodies, contexts |-> {}, reps |-> {}]

WithCases(instr, contexts, reps) ==
    [instr EXCEPT !.contexts = contexts, !.reps = reps]

NoVar == <<"none", 0>>
input_state_vars(q) == <<"input_state", q>>
circuit_choice == <<"circuit_choice", 0>>

n_contexts == rt_args.n_contexts          \* len(prep_circuits)
all_n_reps == rt_args.all_n_reps          \* execution_config.n_reps
num_qubits == rt_args.num_qubits          \* qc.num_qubits
causal_cone_qubits == rt_args.causal_cone_qubits

\* line 257
n_reps_var == IF Len(all_n_reps) > 1 THEN <<"n_reps", 0>> ELSE NoVar

\* len(input_circuits), line 269
NumInputCircuits == Cardinality_per_qubit(input_states_choice)

\* handle_real_time_n_reps(all_n_reps, n_reps_var, prep_circuit, qc) for the
\* contexts in ctxs: the cycle of each context, under a switch over n_reps_var
\* when several repetition counts are configured
ForwardBodies(ctxs) == {<<i, all_n_reps[j]>> : i \in ctxs, j \in DOMAIN all_n_reps}

\* case_circuit(i), lines 286-288 and 326-328
ContextCases == IF n_contexts > 1 THEN 0..(n_contexts - 1) ELSE {}

\* the case labels handle_real_time_n_reps puts on its switch over n_reps_var,
\* the runtime input the inverse stage switches on too
ForwardRepCases ==
    IF Len(all_n_reps) > 1 THEN {all_n_reps[j] : j \in DOMAIN all_n_reps} ELSE {}

\* case_n_reps(n) for j, n in enumerate(all_n_reps), lines 330-332 and 352-354
InverseRepCasesMut ==
    IF Len(all_n_reps) > 1 THEN {j - 1 : j \in DOMAIN all_n_reps} ELSE {}
InverseRepCases ==
    IF Len(all_n_reps) > 1 THEN {all_n_reps[j] : j \in DOMAIN all_n_reps} ELSE {}

\* lines 284-291
ForwardInstr ==
    WithCases(Instr("forward",
                    IF n_contexts > 1 THEN circuit_choice ELSE n_reps_var,
                    0..(num_qubits - 1), {}, ForwardBodies(0..(n_contexts - 1))),
              ContextCases, ForwardRepCases)

\* the cache reads of lines 325-371 during the outer iteration on context i:
\* positions (k, j) of cycle_circuit_inverses[k][j], j numbered from 1 here
InverseReads(i) ==
    IF n_contexts > 1
    THEN {<<k, j>> : k \in 0..(n_contexts - 1), j \in DOMAIN all_n_reps}
    ELSE {<<0, j>> : j \in DOMAIN all_n_reps}

CacheHas(k, j) == j \in DOMAIN cycle_circuit_inverses[k]

\* lines 325-371
InverseInstr(i) ==
    WithCases(Instr("inverse",
                    IF n_contexts > 1 THEN circuit_choice ELSE n_reps_var,
                    Range(causal_cone_qubits), {},
                    {cycle_circuit_inverses[r[1]][r[2]] : r \in InverseReads(i)}),
              ContextCases, InverseRepCases)

Injective(f) == \A a, b \in DOMAIN f : a # b => f[a] # f[b]

RTArgs ==
    {a \in [n_contexts : 1..MaxContexts,
            same_qubits : BOOLEAN,
            all_n_reps : {f \in UNION {[1..l -> 1..MaxNReps] : l \in 1..MaxNReps} :
                              Injective(f)},
            num_qubits : 1..MaxWidth,
            causal_cone_qubits :
                {SortedSeq(S) : S \in (SUBSET (0..(MaxWidth - 1))) \ {{}}},
            clbits : {"none", "match", "mismatch"},
            baseline : UNION {[0..(n - 1) -> BOOLEAN] : n \in 1..MaxContexts},
            skip_transpilation : BOOLEAN] :
        /\ DOMAIN a.baseline = 0..(a.n_contexts - 1)
        /\ Range(a.causal_cone_qubits) \subseteq 0..(a.num_qubits - 1)
        /\ a.n_contexts = 1 => a.same_qubits}

InitRT ==
    /\ pc = "rt_start"
    /\ RewardUnused
    /\ input_states_choice \in {"pauli4", "pauli6"}
    /\ input_states_seed = DefaultSeed
    /\ input_states_rng = DefaultRng(DefaultSeed)
    /\ env_config = <<>>
    /\ target = <<>>
    /\ drawn = <<>>
    /\ input_states_samples = <<>>
    /\ reward_data = <<>>
    /\ calls = <<>>
    /\ prior = <<>>
    /\ rt_args \in RTArgs
    /\ qc = <<>>
    /\ cycle_circuit_inverses = <<>>
    /\ computed = <<>>
    /\ loop_i = 0
    /\ loop_q = 0

\* lines 243-266: the checks, the empty program with its reset, the inputs
RTStart ==
    /\ pc = "rt_start"
    /\ IF ~rt_args.same_qubits \/ rt_args.clbits = "mismatch"
       THEN /\ pc' = "rt_ValueError"
            /\ IF rt_args.same_qubits
               THEN qc' = <<Instr("reset", NoVar, 0..(num_qubits - 1), {}, {})>>
               ELSE qc' = qc
       ELSE /\ pc' = "rt_prep"
            /\ qc' = <<Instr("reset", NoVar, 0..(num_qubits - 1), {}, {})>>
    /\ loop_q' = 0
    /\ UNCHANGED <<rewardVars, dataVars, rt_args, cycle_circuit_inverses, computed,
                   loop_i>>

\* lines 274-282: the input-state switch of qubit loop_q
RTPrepSwitch ==
    /\ pc = "rt_prep"
    /\ loop_q < num_qubits
    /\ qc' = Append(qc, Instr("prep", input_state_vars(loop_q), {loop_q},
                              0..(NumInputCircuits - 1), {}))
    /\ loop_q' = loop_q + 1
    /\ UNCHANGED <<pc, rewardVars, dataVars, rt_args, cycle_circuit_inverses, computed,
                   loop_i>>

\* lines 284-296: the forward branches, then the empty inverse lists
RTForward ==
    /\ pc = "rt_prep"
    /\ loop_q = num_qubits
    /\ qc' = Append(qc, ForwardInstr)
    /\ cycle_circuit_inverses' = [k \in 0..(n_contexts - 1) |-> <<>>]
    /\ loop_i' = 0
    /\ pc' = "rt_loop"
    /\ UNCHANGED <<rewardVars, dataVars, rt_args, computed, loop_q>>

\* lines 297-299
RTMissingBaseline ==
    /\ pc = "rt_loop"
    /\ ~rt_args.baseline[loop_i]
    /\ pc' = "rt_ValueError"
    /\ UNCHANGED <<rewardVars, dataVars, rtVars>>

\* lines 300-322: the inverse of context loop_i for the next n of all_n_reps
RTComputeInverse ==
    /\ pc = "rt_loop"
    /\ rt_args.baseline[loop_i]
    /\ Len(cycle_circuit_inverses[loop_i]) < Len(all_n_reps)
    /\ LET n == all_n_reps[Len(cycle_circuit_inverses[loop_i]) + 1]
       IN  /\ cycle_circuit_inverses' =
                  [cycle_circuit_inverses EXCEPT ![loop_i] = Append(@, <<loop_i, n>>)]
           /\ computed' = Append(computed, <<loop_i, n>>)
    /\ UNCHANGED <<pc, rewardVars, dataVars, rt_args, qc, loop_i, loop_q>>

\* lines 324-371, inside the outer loop: the inverse branches are attached; a
\* read of a list position that holds no inverse raises IndexError and the
\* switch under construction is dropped
RTAttachInverse ==
    /\ pc = "rt_loop"
    /\ rt_args.baseline[loop_i]
    /\ Len(cycle_circuit_inverses[loop_i]) = Len(all_n_reps)
    /\ IF \A r \in InverseReads(loop_i) : CacheHas(r[1], r[2])
       THEN /\ qc' = Append(qc, InverseInstr(loop_i))
            /\ pc' = "rt_unprep"
       ELSE /\ qc' = qc
            /\ pc' = "rt_IndexError"
    /\ loop_q' = 0
    /\ UNCHANGED <<rewardVars, dataVars, rt_args, cycle_circuit_inverses, computed,
                   loop_i>>

\* lines 373-381, inside the outer loop: the input-state inversion of the
\* loop_q-th causal cone qubit
RTUnprepSwitch ==
    /\ pc = "rt_unprep"
    /\ loop_q < Len(causal_cone_qubits)
    /\ qc' = Append(qc, Instr("unprep", input_state_vars(loop_q),
                              {causal_cone_qubits[loop_q + 1]},
                              0..(NumInputCircuits - 1), {}))
    /\ loop_q' = loop_q + 1
    /\ UNCHANGED <<pc, rewardVars, dataVars, rt_args, cycle_circuit_inverses, computed,
                   loop_i>>

\* line 297: the outer loop goes to the next context, or ends
RTNextContext ==
    /\ pc = "rt_unprep"
    /\ loop_q = Len(causal_cone_qubits)
    /\ loop_i' = loop_i + 1
    /\ pc' = IF loop_i + 1 < n_contexts THEN "rt_loop" ELSE "rt_measure"
    /\ UNCHANGED <<rewardVars, dataVars, rt_args, qc, cycle_circuit_inverses, computed,
                   loop_q>>

\* lines 382-394: the measurement, then the program is returned as built or
\* transpiled
RTMeasure ==
    /\ pc = "rt_measure"
    /\ qc' = Append(qc, Instr("measure", NoVar, Range(causal_cone_qubits), {}, {}))
    /\ pc' = IF rt_args.skip_transpilation THEN "rt_done" ELSE "rt_done_transpiled"
    /\ UNCHANGED <<rewardVars, dataVars, rt_args, cycle_circuit_inverses, computed,
                   loop_i, loop_q>>

NextRT ==
    \/ RTStart
    \/ RTPrepSwitch
    \/ RTForward
    \/ RTMissingBaseline
    \/ RTComputeInverse
    \/ RTAttachInverse
    \/ RTUnprepSwitch
    \/ RTNextContext
    \/ RTMeasure

SpecRT == InitRT /\ [][NextRT]_vars

\* ------------------------------------------------- claims on SpecReward
Cells == {c \in (1..MaxProbes) \X (1..MaxBatch) :
              c[1] \in DOMAIN pub_results /\ c[2] \in DOMAIN pub_results[c[1]]}
ConeZeroShots(bit_array) ==
    Cardinality({k \in DOMAIN bit_array :
                    \A i \in Range(causal_cone_qubits_indices) : Bit(bit_array[k], i) = 0})

\* C1: the returned reward has one entry per batch element, and entry b is the
\* equal-weight arithmetic mean over all probes of the probe's survival
\* probability for b.
C1_RewardIsMean ==
    pc = "rw_done" =>
        /\ Len(reward) = pubs[1].batch
        /\ \A p \in DOMAIN pubs : Len(reward) = pubs[p].batch
        /\ \A b \in DOMAIN reward :
              reward[b].num * (n_shots * Len(pubs)) =
                  reward[b].den *
                      SumSeq([p \in 1..Len(pubs) |-> survival_probability[p][b].num])
        /\ \A c \in Cells : survival_probability[c[1]][c[2]].den = n_shots

C1_Witness ==
    /\ pc = "rw_done"
    /\ Len(pubs) >= 2
    /\ Len(reward) = 2
    /\ ~RatEq(survival_probability[1][1], survival_probability[2][1])
    /\ ~RatEq(reward[1], reward[2])

\* shots kept when post-selecting on the measured bits outside the causal cone
\* reading all zero
OtherBitsZero(bit_array) ==
    SelectSeq(bit_array,
              LAMBDA o : \A i \in (0..(num_bits - 1)) \ Range(causal_cone_qubits_indices) :
                             Bit(o, i) = 0)

\* C2 as written: with more measured bits than causal cone qubits, the survival
\* probability is the all-zero fraction among the shots kept by the
\* post-selection, so its denominator is the kept shot count; the kept shots
\* are read either as those whose other measured bits are all zero or as
\* those whose causal cone bits are all zero.
C2_DenominatorIsKeptShots ==
    (pc = "rw_done" /\ num_bits # causal_cone_size) =>
        \A c \in Cells :
            LET bit_array == pub_results[c[1]][c[2]]
                others == OtherBitsZero(bit_array)
                cone == Postselect(bit_array, causal_cone_qubits_indices,
                                   [k \in 1..causal_cone_size |-> 0])
            IN  (NumShots(others) > 0 /\ NumShots(cone) > 0) =>
                    \/ RatEq(survival_probability[c[1]][c[2]],
                             Rat(GetIntCountsZero(others), NumShots(others)))
                    \/ RatEq(survival_probability[c[1]][c[2]],
                             Rat(GetIntCountsZero(cone), NumShots(cone)))

\* C2 amended: with more measured bits than causal cone qubits, the survival
\* probability is the number of shots whose causal cone bits all read zero
\* (the shots kept by the post-selection) over the submitted shot count.
C2_KeptShotsOverSubmitted ==
    (pc = "rw_done" /\ num_bits # causal_cone_size) =>
        \A c \in Cells :
            /\ survival_probability[c[1]][c[2]].den = n_shots
            /\ survival_probability[c[1]][c[2]].num =
                   ConeZeroShots(pub_results[c[1]][c[2]])

C2_Witness ==
    /\ pc = "rw_done"
    /\ num_bits # causal_cone_size
    /\ \E c \in Cells :
          /\ survival_probability[c[1]][c[2]].num > 0
          /\ survival_probability[c[1]][c[2]].num < n_shots
          /\ GetIntCountsZero(pub_results[c[1]][c[2]]) <
                 survival_probability[c[1]][c[2]].num

\* C3: when the measured bit count equals the causal cone size, the direct
\* path and the post-selected path give the same survival probability on the
\* same raw data, for every probe and batch element.
C3_PostSelectionEquivalence ==
    (pub_results # <<>> /\ num_bits = causal_cone_size) =>
        \A c \in Cells :
            DirectSurvival(pub_results[c[1]][c[2]], n_shots) =
                PostselectSurvival(pub_results[c[1]][c[2]], causal_cone_qubits_indices,
                                   causal_cone_size, n_shots)

C3_Witness ==
    /\ pc = "rw_done"
    /\ num_bits = causal_cone_size
    /\ num_bits >= 2
    /\ \E c \in Cells :
          /\ 0 \in Range(pub_results[c[1]][c[2]])
          /\ 2 \in Range(pub_results[c[1]][c[2]])
          /\ survival_probability[c[1]][c[2]] = Rat(1, 2)

\* C4: when the probes do not all share the shot count or the batch size, the
\* call ends in a fatal error, no survival probability is computed and no
\* reward is returned, whichever probe carries the mismatching value.
C4_BatchConsistency ==
    (\E p, q \in DOMAIN pubs :
         pubs[p].shots # pubs[q].shots \/ pubs[p].batch # pubs[q].batch) =>
        /\ survival_probability = <<>>
        /\ reward = <<>>
        /\ pc \in {"rw_start", "rw_ran", "rw_shots_ok", "rw_AssertionError"}
        /\ pc = "rw_shots_ok" => \A p \in DOMAIN pubs : pubs[p].shots = pubs[1].shots
        /\ (~ENABLED NextReward) => pc = "rw_AssertionError"

C4_Witness ==
    /\ pc = "rw_AssertionError"
    /\ Len(pubs) = 3
    /\ pubs[1] = pubs[2]
    /\ pubs[3].shots = pubs[1].shots
    /\ pubs[3].batch # pubs[1].batch
\* ------------------------------------------------- claims on SpecData
Min(a, b) == IF a <= b THEN a ELSE b

\* C5: the drawn indices are deduplicated before any probe is built, and the
\* returned Reward Data holds exactly one probe per distinct drawn index: no
\* two probes carry the same input-state index, and the probe count is the
\* number of distinct indices, at most min(sample count, library size).
C5_OneProbePerDistinctSample ==
    /\ pc = "rd_loop" =>
          /\ Range(input_states_samples) = Range(drawn)
          /\ \A i, j \in DOMAIN input_states_samples :
                i # j => input_states_samples[i] # input_states_samples[j]
    /\ (pc = "idle" /\ drawn # <<>>) =>
          /\ Len(reward_data) = Cardinality(Range(drawn))
          /\ {reward_data[i].sample : i \in DOMAIN reward_data} = Range(drawn)
          /\ Len(reward_data) <=
                 Min(Len(drawn),
                     InputStatesLen(input_states_choice, target.causal_cone_size))
          /\ \A i, j \in DOMAIN reward_data :
                i # j => /\ reward_data[i].sample # reward_data[j].sample
                         /\ reward_data[i].input_indices # reward_data[j].input_indices

C5_Witness ==
    /\ pc = "idle"
    /\ Len(drawn) = 3
    /\ Len(reward_data) = 2
    /\ \E i, j \in DOMAIN drawn : i < j /\ drawn[i] = drawn[j]

\* C6 as written: the sample set of a call depends only on the seed and the
\* sample count (basis family and target being fixed), not on the sampling
\* done earlier on the same object.
C6_SamplesDependOnSeedOnly ==
    \A i, j \in DOMAIN calls :
        (calls[i].seed = calls[j].seed /\ calls[i].size = calls[j].size) =>
            calls[i].samples = calls[j].samples

\* C6 amended: the sample set of a call depends only on the seed, the sample
\* count and the sampling calls made since the generator was seeded (basis
\* family and target being fixed); two calls made right after seeding with
\* the same seed give the same deduplicated sample set.
C6_SamplesDependOnSeedAndPrior ==
    \A i, j \in DOMAIN calls :
        (/\ calls[i].seed = calls[j].seed
         /\ calls[i].size = calls[j].size
         /\ calls[i].prior = calls[j].prior) =>
            calls[i].samples = calls[j].samples

C6_Witness ==
    /\ Len(calls) = 3
    /\ calls[1].seed = calls[3].seed
    /\ calls[1].size = calls[3].size
    /\ calls[1].prior = <<>>
    /\ calls[2].prior # <<>>
    /\ calls[3].prior = <<>>
    /\ calls[2].samples # calls[1].samples
    /\ calls[3].samples = calls[1].samples
    /\ calls[1].size >= 2

\* C8 as written: both the test-side and the reference-side cycle are requested
\* as a fixed repetition of current_n_reps, without control flow, whatever
\* control_flow_enabled is.
C8_NoControlFlowRequested ==
    \A i \in DOMAIN reward_data :
        /\ reward_data[i].run_qc.n_reps = env_config.current_n_reps
        /\ reward_data[i].ref_qc.n_reps = env_config.current_n_reps
        /\ ~reward_data[i].run_qc.control_flow
        /\ ~reward_data[i].ref_qc.control_flow

\* C8 amended: both cycles are requested with current_n_reps repetitions; the
\* reference-side cycle is always requested without control flow, and the
\* test-side cycle is requested with control flow exactly when
\* control_flow_enabled is set.
C8_ControlFlowFollowsConfig ==
    \A i \in DOMAIN reward_data :
        /\ reward_data[i].run_qc.context = "qc"
        /\ reward_data[i].ref_qc.context = "circuit_ref"
        /\ reward_data[i].run_qc.n_reps = env_config.current_n_reps
        /\ reward_data[i].ref_qc.n_reps = env_config.current_n_reps
        /\ reward_data[i].run_qc.control_flow = env_config.control_flow_enabled
        /\ ~reward_data[i].ref_qc.control_flow

C8_Witness ==
    /\ pc = "idle"
    /\ Len(reward_data) >= 2
    /\ env_config.control_flow_enabled
    /\ env_config.current_n_reps = 2
    /\ reward_data[1].run_qc.control_flow

\* ------------------------------------------------- claims on SpecRT
RTDone == pc \in {"rt_done", "rt_done_transpiled"}
Occurrences(seq, x) == Cardinality({k \in DOMAIN seq : seq[k] = x})
Stages == [k \in DOMAIN qc |-> qc[k].stage]
Repeat(x, n) == [k \in 1..n |-> x]

\* C7: for any number of contexts and any set of repetition counts, no branch
\* ever reads an inverse that has not been computed yet, the inverse of each
\* (context, repetition count) pair is computed exactly once per call, and
\* every pair of the finished program has its cache entry.
C7_InverseCacheInvariant ==
    /\ pc # "rt_IndexError"
    /\ \A x \in Range(computed) : Occurrences(computed, x) = 1
    /\ \A k \in DOMAIN qc :
          qc[k].stage = "inverse" => qc[k].bodies \subseteq Range(computed)
    /\ RTDone =>
          /\ \A i \in 0..(n_contexts - 1) : \A n \in Range(all_n_reps) :
                Occurrences(computed, <<i, n>>) = 1
          /\ \A k \in DOMAIN qc : qc[k].bodies \subseteq Range(computed)

\* C10: for one or several contexts, each with a baseline circuit, and every
\* set of repetition counts, the call completes and the program is, in order:
\* the input-state branches of every qubit and the forward branches, exactly
\* one inverse stage, one input-state inversion per causal cone qubit, and
\* one final measurement.
C10_StageOrder ==
    (/\ rt_args.same_qubits
     /\ rt_args.clbits # "mismatch"
     /\ \A i \in DOMAIN rt_args.baseline : rt_args.baseline[i]) =>
        /\ pc \notin {"rt_IndexError", "rt_ValueError"}
        /\ (~ENABLED NextRT) => RTDone
        /\ RTDone =>
              Stages = <<"reset">> \o Repeat("prep", num_qubits)
                           \o <<"forward", "inverse">>
                           \o Repeat("unprep", Len(causal_cone_qubits))
                           \o <<"measure">>
StageInstrs(stage) == {k \in DOMAIN qc : qc[k].stage = stage}
InputStateIndices == 0..(NumInputCircuits - 1)

\* C11 as written: in a finished program every declared branch value, input
\* state index 0..cardinality-1 on each qubit's switch, context index
\* 0..context-count-1 and repetition index 0..repetition-count-1, has a body
\* in the forward and in the inverse stage, and a call that does not finish
\* ends in a fatal error.
C11_BranchValuesAreIndices ==
    /\ (~ENABLED NextRT) =>
           RTDone \/ pc \in {"rt_ValueError", "rt_IndexError"}
    /\ RTDone =>
          /\ \A k \in StageInstrs("prep") \cup StageInstrs("unprep") :
                InputStateIndices \subseteq qc[k].states
          /\ \A k \in StageInstrs("forward") \cup StageInstrs("inverse") :
                /\ n_contexts > 1 => 0..(n_contexts - 1) \subseteq qc[k].contexts
                /\ Len(all_n_reps) > 1 =>
                       0..(Len(all_n_reps) - 1) \subseteq qc[k].reps

\* C11 amended: a switch of the program carries a body for every input-state
\* index 0..cardinality-1 (one preparation switch per circuit qubit, one
\* inversion switch per causal cone qubit), for every context index
\* 0..context-count-1 and, on the inverse-stage switch over n_reps_var, for
\* every configured repetition count n, the label being the count itself and
\* not its position; an inverse read without a computed entry ends the call in
\* IndexError, so no finished program lacks a body.
C11_BranchValuesAreCounts ==
    /\ \A k \in StageInstrs("prep") \cup StageInstrs("unprep") :
          qc[k].states = InputStateIndices
    /\ \A k \in StageInstrs("forward") \cup StageInstrs("inverse") :
          qc[k].contexts = (IF n_contexts > 1 THEN 0..(n_contexts - 1) ELSE {})
    /\ \A k \in StageInstrs("inverse") :
          /\ qc[k].reps = (IF Len(all_n_reps) > 1 THEN Range(all_n_reps) ELSE {})
          /\ qc[k].bodies =
                 {<<i, n>> : i \in 0..(n_contexts - 1), n \in Range(all_n_reps)}
    /\ (~ENABLED NextRT) =>
           RTDone \/ pc \in {"rt_ValueError", "rt_IndexError"}
    /\ RTDone =>
          /\ Cardinality(StageInstrs("prep")) = num_qubits
          /\ Cardinality(StageInstrs("unprep")) = Len(causal_cone_qubits)
          /\ Cardinality(StageInstrs("forward")) = 1
          /\ Cardinality(StageInstrs("inverse")) = 1

C11_Witness ==
    /\ RTDone
    /\ all_n_reps = <<2, 1>>
    /\ \E k \in StageInstrs("inverse") : qc[k].reps = {1, 2}
    /\ Len(causal_cone_qubits) < num_qubits
\* C12: every causal cone qubit has its input-state inversion switched on the
\* runtime input that switched its input-state preparation, whatever the
\* circuit width and the position of the causal cone qubits in the circuit.
C12_SameInputVariable ==
    \A k \in StageInstrs("prep") : \A l \in StageInstrs("unprep") :
        qc[k].qubits = qc[l].qubits => qc[k].var = qc[l].var
====
